---- MODULE Spec2Model ----
(***************************************************************************)
(* A model of mtproto/scheme.py: the registry of tagged types, the decode  *)
(* and encode methods of every class of the module, and the struct calls   *)
(* they are built from.                                                    *)
(*                                                                         *)
(* Byte buffers are sequences of 0..255.  A Python int is kept as the      *)
(* 8-byte little-endian two's complement image of its value (TLC's own     *)
(* integers are 32 bits wide, the codec's are 64), tagged [int |-> ...];   *)
(* a bytes object is [bytes |-> ...], a tuple [tup |-> ...], None is       *)
(* [none |-> TRUE], and an instance is a record with a cls field.          *)
(* The byte order is little-endian (the module packs in native order; the  *)
(* same order is used by pack and unpack, so it cancels).  The alignment   *)
(* struct gives a 64-bit integer in native mode does not cancel: it is     *)
(* the variable qalign, 8 on LP64 platforms and 4 on i386.                 *)
(***************************************************************************)
EXTENDS Integers, Sequences, FiniteSets, TLC

VARIABLES
    __objects,  \* the registry: magic number -> class name
    loaded,     \* how many of the module's top-level __add_object statements ran
    qalign,     \* native alignment of a 64-bit integer on this platform
    regcall,    \* the last __add_object call: the class and how it ended
    orig,       \* a value built by field assignment, or None
    enc,        \* orig.serialize(): a result, or NotYet
    how,        \* how `buffer` was derived from enc
    buffer,     \* the buffer handed to a decode call
    offset,     \* the offset handed to a decode call
    via,        \* the decode entry point: "deserialize" or a class name
    dec,        \* the result of the decode call, or NotYet
    reenc,      \* dec.obj.serialize(): a result, or NotYet
    table,      \* the rows print_table printed last
    heap,       \* the MTByteArray objects that instances refer to, by address
    held        \* the instances kept from earlier decode calls

vars == <<__objects, loaded, qalign, regcall, orig, enc, how, buffer, offset,
          via, dec, reenc, table, heap, held>>

----------------------------------------------------------------------------
(* Python values *)

None == [none |-> TRUE]
Bytes(s) == [bytes |-> s]
Tup(s) == [tup |-> s]
IsInt(v) == DOMAIN v = {"int"}
IsBytes(v) == DOMAIN v = {"bytes"}

Byte(n, i) == (n \div (256 ^ i)) % 256

\* The int value n, for 0 <= n < 2^31.
N(n) == [int |-> <<Byte(n, 0), Byte(n, 1), Byte(n, 2), Byte(n, 3), 0, 0, 0, 0>>]

\* The int value -n, for 0 < n <= 2^31: the complement of n - 1.
Neg(n) ==
    [int |-> <<255 - Byte(n - 1, 0), 255 - Byte(n - 1, 1), 255 - Byte(n - 1, 2),
               255 - Byte(n - 1, 3), 255, 255, 255, 255>>]

\* The int value 0xaabbccdd, written as the source writes a magic number.
Hex32(a, b, c, d) == [int |-> <<d, c, b, a, 0, 0, 0, 0>>]

Zeros(n) == [i \in 1..n |-> 0]

\* Whether the int v is in the range of a C unsigned int / int / long long.
InU32(v) == SubSeq(v.int, 5, 8) = Zeros(4)
InI32(v) ==
    \/ v.int[4] < 128 /\ SubSeq(v.int, 5, 8) = Zeros(4)
    \/ v.int[4] >= 128 /\ SubSeq(v.int, 5, 8) = <<255, 255, 255, 255>>

\* The number an int in the C int range stands for.
Num(v) ==
    (IF v.int[4] >= 128 THEN v.int[4] - 256 ELSE v.int[4]) * 16777216
        + v.int[3] * 65536 + v.int[2] * 256 + v.int[1]

\* A count or length as a number.  One of 2^30 or more is larger than any
\* buffer, and is capped there to keep the sums of offsets in TLC's range.
Count(v) == IF InI32(v) /\ Num(v) < 1073741823 THEN Num(v) ELSE 1073741823

\* buffer[lo:hi] of Python, for lo >= 0.
PySlice(s, lo, hi) ==
    LET n == Len(s)
        h == IF hi < 0 THEN (IF n + hi < 0 THEN 0 ELSE n + hi)
             ELSE IF hi > n THEN n ELSE hi
        l == IF lo > n THEN n ELSE lo
    IN  IF l < h THEN SubSeq(s, l + 1, h) ELSE <<>>

----------------------------------------------------------------------------
(* struct: formats are sequences of items [c, n]: the code 'I', 'i', 'q'   *)
(* or 's' and its repeat count, in native mode ('@', the default).         *)

F(c, n) == [c |-> c, n |-> n]

AlignOf(c, qa) == CASE c = "q" -> qa [] c = "s" -> 1 [] OTHER -> 4
SizeOf(c) == CASE c = "q" -> 8 [] c = "s" -> 1 [] OTHER -> 4
AlignUp(pos, a) == ((pos + a - 1) \div a) * a

\* A negative count is not a format ('-1s': bad char in struct format).
FmtOK(fmt) == \A i \in 1..Len(fmt) : fmt[i].n >= 0

RECURSIVE FmtEnd(_, _, _, _)
FmtEnd(fmt, i, pos, qa) ==
    IF i > Len(fmt) THEN pos
    ELSE FmtEnd(fmt, i + 1,
                AlignUp(pos, AlignOf(fmt[i].c, qa)) + SizeOf(fmt[i].c) * fmt[i].n, qa)

\* struct.calcsize(fmt), for a format that is one.
calcsize(fmt, qa) == FmtEnd(fmt, 1, 0, qa)

\* The codes of the values a format packs or unpacks, one per value.
RECURSIVE FmtCodes(_, _)
FmtCodes(fmt, i) ==
    IF i > Len(fmt) THEN <<>>
    ELSE (IF fmt[i].c = "s" THEN <<"s">> ELSE [k \in 1..fmt[i].n |-> fmt[i].c])
         \o FmtCodes(fmt, i + 1)

\* Whether pack accepts value v for code c.
PackArgOK(c, v) ==
    CASE c = "s" -> IsBytes(v)
      [] c = "q" -> IsInt(v)
      [] c = "I" -> IsInt(v) /\ InU32(v)
      [] OTHER   -> IsInt(v) /\ InI32(v)

\* The bytes of one packed value; 's' truncates or zero-pads to its count.
PackOne(c, n, v) ==
    CASE c = "s" -> [k \in 1..n |-> IF k <= Len(v.bytes) THEN v.bytes[k] ELSE 0]
      [] c = "q" -> v.int
      [] OTHER   -> SubSeq(v.int, 1, 4)

RECURSIVE PackFrom(_, _, _, _, _, _)
PackFrom(fmt, i, k, args, acc, qa) ==
    IF i > Len(fmt) THEN acc
    ELSE LET it == fmt[i]
             pad == Zeros(AlignUp(Len(acc), AlignOf(it.c, qa)) - Len(acc))
         IN  IF it.c = "s"
             THEN PackFrom(fmt, i + 1, 1, Tail(args),
                           acc \o pad \o PackOne("s", it.n, Head(args)), qa)
             ELSE IF k > it.n
             THEN PackFrom(fmt, i + 1, 1, args, acc \o pad, qa)
             ELSE PackFrom(fmt, i, k + 1, Tail(args),
                           acc \o pad \o PackOne(it.c, 1, Head(args)), qa)

\* struct.pack(fmt, *args): [ok, b]; not ok is struct.error.
pack(fmt, args, qa) ==
    LET codes == FmtCodes(fmt, 1) IN
    IF /\ FmtOK(fmt)
       /\ Len(args) = Len(codes)
       /\ \A j \in 1..Len(args) : PackArgOK(codes[j], args[j])
    THEN [ok |-> TRUE, b |-> PackFrom(fmt, 1, 1, args, <<>>, qa)]
    ELSE [ok |-> FALSE, b |-> <<>>]

\* The value of code c that the bytes at 0-based position p of buf hold.
UnpackOne(c, n, buf, p) ==
    CASE c = "s" -> Bytes(SubSeq(buf, p + 1, p + n))
      [] c = "q" -> [int |-> SubSeq(buf, p + 1, p + 8)]
      [] c = "I" -> [int |-> SubSeq(buf, p + 1, p + 4) \o Zeros(4)]
      [] OTHER   -> [int |-> SubSeq(buf, p + 1, p + 4)
                             \o (IF buf[p + 4] >= 128 THEN <<255, 255, 255, 255>>
                                 ELSE Zeros(4))]

RECURSIVE UnpackFrom(_, _, _, _, _, _, _)
UnpackFrom(fmt, i, k, buf, base, pos, qa) ==
    IF i > Len(fmt) THEN <<>>
    ELSE LET it == fmt[i]
             at == AlignUp(pos, AlignOf(it.c, qa))
         IN  IF it.c = "s"
             THEN <<UnpackOne("s", it.n, buf, base + at)>>
                  \o UnpackFrom(fmt, i + 1, 1, buf, base, at + it.n, qa)
             ELSE IF k > it.n
             THEN UnpackFrom(fmt, i + 1, 1, buf, base, at, qa)
             ELSE <<UnpackOne(it.c, 1, buf, base + at)>>
                  \o UnpackFrom(fmt, i, k + 1, buf, base, at + SizeOf(it.c), qa)

\* struct.unpack_from(fmt, buf, offset=off), off >= 0: [ok, v]; not ok is
\* struct.error (no format, or fewer than calcsize(fmt) bytes at off).
unpack_from(fmt, buf, off, qa) ==
    IF /\ FmtOK(fmt)
       /\ off <= Len(buf)
       /\ \A i \in 1..Len(fmt) : fmt[i].n <= Len(buf)
       /\ calcsize(fmt, qa) <= Len(buf) - off
    THEN [ok |-> TRUE, v |-> UnpackFrom(fmt, 1, 1, buf, off, 0, qa)]
    ELSE [ok |-> FALSE, v |-> <<>>]

----------------------------------------------------------------------------
(* Results.  A call that returns: exc = "none".  A call that raises: the   *)
(* exception's name, and its argument if it has one.                       *)

Ok(o) == [exc |-> "none", arg |-> <<>>, obj |-> o]
Raise(e) == [exc |-> e, arg |-> <<>>, obj |-> None]
RaiseArg(e, a) == [exc |-> e, arg |-> <<a>>, obj |-> None]
Sent(b) == [exc |-> "none", b |-> b]
SRaise(e) == [exc |-> e, b |-> <<>>]
NotYet == [exc |-> "notyet"]

----------------------------------------------------------------------------
(* MTByteArray (mtproto/mtbytearray.py): the length-prefixed byte string,  *)
(* padded with zero bytes to a multiple of 4.                              *)

MTByteArray_new == [cls |-> "MTByteArray", data |-> <<>>]

PrefixLen(n) == IF n < 254 THEN 1 ELSE 4
PaddedLen(n) == AlignUp(PrefixLen(n) + n, 4)

MTByteArray_serialized_size(self) == PaddedLen(Len(self.data))

MTByteArray_serialize(self) ==
    LET n == Len(self.data)
        head == IF n < 254 THEN <<n>>
                ELSE <<254, Byte(n, 0), Byte(n, 1), Byte(n, 2)>>
    IN  head \o self.data \o Zeros(PaddedLen(n) - PrefixLen(n) - n)

MTByteArray_deserialize(self, buf, off) ==
    IF off + 1 > Len(buf) THEN Raise("TruncatedInputError")
    ELSE IF buf[off + 1] < 254
    THEN LET n == buf[off + 1] IN
         IF off + PaddedLen(n) > Len(buf) THEN Raise("TruncatedInputError")
         ELSE Ok([self EXCEPT !.data = SubSeq(buf, off + 2, off + 1 + n)])
    ELSE IF off + 4 > Len(buf) THEN Raise("TruncatedInputError")
    ELSE LET n == buf[off + 2] + 256 * buf[off + 3] + 65536 * buf[off + 4] IN
         IF n > Len(buf) \/ off + AlignUp(4 + n, 4) > Len(buf)
         THEN Raise("TruncatedInputError")
         ELSE Ok([self EXCEPT !.data = SubSeq(buf, off + 5, off + 4 + n)])

----------------------------------------------------------------------------
(* The classes, in the order the module defines them. *)

MAGIC(cls) ==
    CASE cls = "TLVector"              -> Hex32(\h1c, \hb5, \hc4, \h15)
      [] cls = "TLMsgsAck"             -> Hex32(\h62, \hd6, \hb4, \h59)
      [] cls = "TLMsgContainer"        -> Hex32(\h73, \hf1, \hf8, \hdc)
      [] cls = "TLMessage"             -> Hex32(\h5b, \hb8, \he5, \h11)
      [] cls = "TLMsgResendReq"        -> Hex32(\h7d, \h86, \h1a, \h08)
      [] cls = "TLRpcError"            -> Hex32(\h21, \h44, \hca, \h19)
      [] cls = "TLRpcReqError"         -> Hex32(\h7a, \he4, \h32, \hf5)
      [] cls = "TLClientDHInnerData"   -> Hex32(\h66, \h43, \hb6, \h54)
      [] cls = "TLServerDHInnerData"   -> Hex32(\hb5, \h89, \h0d, \hba)
      [] cls = "TLReqPQ"               -> Hex32(\h60, \h46, \h97, \h78)
      [] cls = "TLReqDHParams"         -> Hex32(\hd7, \h12, \he4, \hbe)
      [] cls = "TLSetClientDHParams"   -> Hex32(\hf5, \h04, \h5f, \h1f)
      [] cls = "TLRpcDropAnswer"       -> Hex32(\h58, \he4, \ha7, \h40)
      [] cls = "TLGetFutureSalts"      -> Hex32(\hb9, \h21, \hbd, \h04)
      [] cls = "TLPing"                -> Hex32(\h7a, \hbe, \h77, \hec)
      [] cls = "TLPingDelayDisconnect" -> Hex32(\hf3, \h42, \h7b, \h8c)
      [] cls = "TLDestroySession"      -> Hex32(\he7, \h51, \h21, \h26)
      [] cls = "TLGzipPacked"          -> Hex32(\h30, \h72, \hcf, \ha1)
      [] cls = "TLError"               -> Hex32(\hc4, \hb9, \hf9, \hbb)
      [] cls = "TLInvokeAfterMsg"      -> Hex32(\hcb, \h9f, \h37, \h2d)
      [] cls = "TLInvokeWithLayer"     -> Hex32(\hda, \h9b, \h0d, \h0d)
      [] cls = "TLInitConnection"      -> Hex32(\h69, \h79, \h6d, \he9)

\* The classes the module registers, in the order of its __add_object
\* statements.
Registered ==
    <<"TLVector", "TLMsgsAck", "TLMsgContainer", "TLMessage", "TLMsgResendReq",
      "TLRpcError", "TLRpcReqError", "TLClientDHInnerData", "TLServerDHInnerData",
      "TLReqPQ", "TLReqDHParams", "TLSetClientDHParams", "TLRpcDropAnswer",
      "TLGetFutureSalts", "TLPing", "TLPingDelayDisconnect", "TLDestroySession",
      "TLGzipPacked", "TLError", "TLInvokeAfterMsg", "TLInvokeWithLayer">>

\* Every class of the module that has a MAGIC.
Classes == {Registered[i] : i \in 1..Len(Registered)} \cup {"TLInitConnection"}

\* The test every deserialize method starts with.
\* A magic test that lets any magic through; C3 tells the code from it.
CheckMagic_accept(cls, buf, off) ==
    LET u == unpack_from(<<F("I", 1)>>, buf, off, qalign) IN
    IF ~u.ok THEN "struct.error" ELSE "none"

CheckMagic(cls, buf, off) ==
    LET u == unpack_from(<<F("I", 1)>>, buf, off, qalign) IN
    IF ~u.ok THEN "struct.error"
    ELSE IF <<MAGIC(cls)>> # u.v THEN "IncorrectMagicNumberError"
    ELSE "none"

(* TLVector *)

TLVector_new == [cls |-> "TLVector", values |-> <<>>]

\* A vector decoder that reads the integers at the absolute position 8
\* instead of offset + 8; C8 tells the code from it.
TLVector_deserialize_abs(self, buf, off) ==
    LET m == CheckMagic("TLVector", buf, off)
        c == unpack_from(<<F("I", 1)>>, buf, off + 4, qalign)
        v == unpack_from(<<F("q", Count(c.v[1]))>>, buf, 8, qalign)
    IN  IF m # "none" THEN Raise(m)
        ELSE IF ~c.ok \/ ~v.ok THEN Raise("struct.error")
        ELSE Ok([self EXCEPT !.values = v.v])

TLVector_deserialize(self, buf, off) ==
    LET m == CheckMagic("TLVector", buf, off)
        c == unpack_from(<<F("I", 1)>>, buf, off + 4, qalign)
        v == unpack_from(<<F("q", Count(c.v[1]))>>, buf, off + 8, qalign)
    IN  IF m # "none" THEN Raise(m)
        ELSE IF ~c.ok \/ ~v.ok THEN Raise("struct.error")
        ELSE Ok([self EXCEPT !.values = v.v])

TLVector(buf, off) == TLVector_deserialize(TLVector_new, buf, off)

TLVector_serialize(self) ==
    LET count == Len(self.values)
        p == pack(<<F("I", 1), F("I", 1), F("q", count)>>,
                  <<MAGIC("TLVector"), N(count)>> \o self.values, qalign)
    IN  IF p.ok THEN Sent(p.b) ELSE SRaise("struct.error")

TLVector_serialized_size(self) ==
    calcsize(<<F("I", 1), F("I", 1), F("q", Len(self.values))>>, qalign)

(* TLMsgsAck and TLMsgResendReq: a vector of message ids *)

TLMsgsAck_new == [cls |-> "TLMsgsAck", msg_ids |-> TLVector_new]

TLMsgsAck_deserialize(self, buf, off) ==
    LET m == CheckMagic("TLMsgsAck", buf, off)
        v == TLVector(buf, off + 4)
    IN  IF m # "none" THEN Raise(m)
        ELSE IF v.exc # "none" THEN v
        ELSE Ok([self EXCEPT !.msg_ids = v.obj])

TLMsgsAck_serialize(self) ==
    LET vec == TLVector_serialize(self.msg_ids)
        p == pack(<<F("I", 1), F("s", Len(vec.b))>>,
                  <<MAGIC("TLMsgsAck"), Bytes(vec.b)>>, qalign)
    IN  IF vec.exc # "none" THEN vec
        ELSE IF p.ok THEN Sent(p.b) ELSE SRaise("struct.error")

TLMsgResendReq_new == [cls |-> "TLMsgResendReq", msg_ids |-> TLVector_new]

TLMsgResendReq_deserialize(self, buf, off) ==
    LET m == CheckMagic("TLMsgResendReq", buf, off)
        v == TLVector(buf, off + 4)
    IN  IF m # "none" THEN Raise(m)
        ELSE IF v.exc # "none" THEN v
        ELSE Ok([self EXCEPT !.msg_ids = v.obj])

TLMsgResendReq_serialize(self) ==
    LET vec == TLVector_serialize(self.msg_ids)
        p == pack(<<F("I", 1), F("s", Len(vec.b))>>,
                  <<MAGIC("TLMsgResendReq"), Bytes(vec.b)>>, qalign)
    IN  IF vec.exc # "none" THEN vec
        ELSE IF p.ok THEN Sent(p.b) ELSE SRaise("struct.error")

(* TLMessage: the envelope *)

TLMessage_new ==
    [cls |-> "TLMessage", msg_id |-> N(0), segno |-> N(0), bytes |-> N(0),
     body |-> None]

\* The format 'Iqii%ds' % self.bytes.
TLMessage_format(self) ==
    <<F("I", 1), F("q", 1), F("i", 1), F("i", 1), F("s", Count(self.bytes))>>

TLMessage_deserialize(self, buf, off) ==
    LET m == CheckMagic("TLMessage", buf, off)
        u == unpack_from(<<F("q", 1), F("i", 1), F("i", 1)>>, buf, off + 4, qalign)
    IN  IF m # "none" THEN Raise(m)
        ELSE IF ~u.ok THEN Raise("struct.error")
        ELSE Ok([self EXCEPT !.msg_id = u.v[1], !.segno = u.v[2], !.bytes = u.v[3],
                             !.body = Bytes(PySlice(buf, 20, 20 + Count(u.v[3])))])

TLMessage(buf, off) == TLMessage_deserialize(TLMessage_new, buf, off)

TLMessage_serialize(self) ==
    LET p == pack(TLMessage_format(self),
                  <<MAGIC("TLMessage"), self.msg_id, self.segno, self.bytes,
                    self.body>>, qalign)
    IN  IF ~IsInt(self.bytes) THEN SRaise("TypeError")
        ELSE IF p.ok THEN Sent(p.b) ELSE SRaise("struct.error")

\* [ok, v]: not ok is struct.error (a negative length is no format).
TLMessage_serialized_size(self) ==
    IF FmtOK(TLMessage_format(self))
    THEN [ok |-> TRUE, v |-> calcsize(TLMessage_format(self), qalign)]
    ELSE [ok |-> FALSE, v |-> 0]

(* TLMsgContainer *)

TLMsgContainer_new == [cls |-> "TLMsgContainer", messages |-> <<>>]

\* The loop of TLMsgContainer.deserialize, with `left` messages to go.
RECURSIVE TLMsgContainer_loop(_, _, _, _)
TLMsgContainer_loop(self, buf, off, left) ==
    IF left = 0 THEN Ok(self)
    ELSE LET message == TLMessage(buf, off)
             size == TLMessage_serialized_size(message.obj)
         IN  IF message.exc # "none" THEN message
             ELSE IF ~size.ok THEN Raise("struct.error")
             ELSE TLMsgContainer_loop(
                      [self EXCEPT !.messages = Append(@, message.obj)],
                      buf, off + size.v, left - 1)

TLMsgContainer_deserialize(self, buf, off) ==
    LET m == CheckMagic("TLMsgContainer", buf, off)
        c == unpack_from(<<F("I", 1)>>, buf, off + 4, qalign)
    IN  IF m # "none" THEN Raise(m)
        ELSE IF ~c.ok THEN Raise("struct.error")
        ELSE TLMsgContainer_loop(self, buf, off + 8, Count(c.v[1]))

RECURSIVE JoinMessages(_, _)
JoinMessages(msgs, i) ==
    IF i > Len(msgs) THEN Sent(<<>>)
    ELSE LET one == TLMessage_serialize(msgs[i])
             rest == JoinMessages(msgs, i + 1)
         IN  IF one.exc # "none" THEN one
             ELSE IF rest.exc # "none" THEN rest
             ELSE Sent(one.b \o rest.b)

TLMsgContainer_serialize(self) ==
    LET msgs == JoinMessages(self.messages, 1)
        p == pack(<<F("I", 1), F("I", 1), F("s", Len(msgs.b))>>,
                  <<MAGIC("TLMsgContainer"), N(Len(self.messages)), Bytes(msgs.b)>>,
                  qalign)
    IN  IF msgs.exc # "none" THEN msgs
        ELSE IF p.ok THEN Sent(p.b) ELSE SRaise("struct.error")

(* TLRpcError, TLRpcReqError *)

TLRpcError_new ==
    [cls |-> "TLRpcError", error_code |-> N(0), error_message |-> MTByteArray_new]

TLRpcError_deserialize(self, buf, off) ==
    LET m == CheckMagic("TLRpcError", buf, off)
        u == unpack_from(<<F("i", 1)>>, buf, off + 4, qalign)
        s == MTByteArray_deserialize(self.error_message, buf, off + 8)
    IN  IF m # "none" THEN Raise(m)
        ELSE IF ~u.ok THEN Raise("struct.error")
        ELSE IF s.exc # "none" THEN s
        ELSE Ok([self EXCEPT !.error_code = u.v[1], !.error_message = s.obj])

TLRpcError_serialize(self) ==
    LET s == MTByteArray_serialize(self.error_message)
        p == pack(<<F("I", 1), F("i", 1), F("s", Len(s))>>,
                  <<MAGIC("TLRpcError"), self.error_code, Bytes(s)>>, qalign)
    IN  IF p.ok THEN Sent(p.b) ELSE SRaise("struct.error")

TLRpcReqError_new ==
    [cls |-> "TLRpcReqError", query_id |-> N(0), error_code |-> N(0),
     error_message |-> MTByteArray_new]

TLRpcReqError_deserialize(self, buf, off) ==
    LET m == CheckMagic("TLRpcReqError", buf, off)
        u == unpack_from(<<F("q", 1), F("i", 1)>>, buf, off + 4, qalign)
        s == MTByteArray_deserialize(self.error_message, buf, off)
    IN  IF m # "none" THEN Raise(m)
        ELSE IF ~u.ok THEN Raise("struct.error")
        ELSE IF s.exc # "none" THEN s
        ELSE Ok([self EXCEPT !.query_id = u.v[1], !.error_code = u.v[2],
                             !.error_message = s.obj])

TLRpcReqError_serialize(self) ==
    LET error_b == MTByteArray_serialize(self.error_message)
        p == pack(<<F("I", 1), F("q", 1), F("i", 1), F("s", Len(error_b))>>,
                  <<MAGIC("TLRpcReqError"), self.query_id, self.error_code,
                    Bytes(error_b)>>, qalign)
    IN  IF p.ok THEN Sent(p.b) ELSE SRaise("struct.error")

(* TLClientDHInnerData, TLServerDHInnerData *)

TLClientDHInnerData_new ==
    [cls |-> "TLClientDHInnerData", nonce |-> Bytes(<<>>),
     server_nonce |-> Bytes(<<>>), retry_id |-> N(0), g_b |-> MTByteArray_new]

\* A decoder that returns the empty instance once the magic matches; C7
\* tells the code from it.
TLClientDHInnerData_deserialize_ok(self, buf, off) ==
    LET m == CheckMagic("TLClientDHInnerData", buf, off) IN
    IF m # "none" THEN Raise(m) ELSE Ok(self)

TLClientDHInnerData_deserialize(self, buf, off) ==
    LET m == CheckMagic("TLClientDHInnerData", buf, off) IN
    IF m # "none" THEN Raise(m) ELSE Raise("NotImplementedError")

TLClientDHInnerData_serialize(self) ==
    LET gb_b == MTByteArray_serialize(self.g_b)
        p == pack(<<F("I", 1), F("s", Len(self.nonce.bytes)),
                    F("s", Len(self.server_nonce.bytes)), F("q", 1),
                    F("s", Len(gb_b))>>,
                  <<MAGIC("TLClientDHInnerData"), self.nonce, self.server_nonce,
                    self.retry_id, Bytes(gb_b)>>, qalign)
    IN  IF p.ok THEN Sent(p.b) ELSE SRaise("struct.error")

TLServerDHInnerData_new ==
    [cls |-> "TLServerDHInnerData", nonce |-> Bytes(<<>>),
     server_nonce |-> Bytes(<<>>), g |-> N(0), dh_prime |-> MTByteArray_new,
     g_a |-> MTByteArray_new, server_time |-> N(0)]

TLServerDHInnerData_deserialize(self, buf, off) ==
    LET m == CheckMagic("TLServerDHInnerData", buf, off)
        u == unpack_from(<<F("s", 16), F("s", 16), F("I", 1)>>, buf, off + 4, qalign)
        off1 == off + 4 + Len(u.v[1].bytes) + Len(u.v[2].bytes) + 4
        dh_prime == MTByteArray_deserialize(self.dh_prime, buf, off1)
        off2 == off1 + MTByteArray_serialized_size(dh_prime.obj)
        g_a == MTByteArray_deserialize(self.g_a, buf, off2)
        off3 == off2 + MTByteArray_serialized_size(g_a.obj)
        t == unpack_from(<<F("i", 1)>>, buf, off3, qalign)
    IN  IF m # "none" THEN Raise(m)
        ELSE IF ~u.ok THEN Raise("struct.error")
        ELSE IF dh_prime.exc # "none" THEN dh_prime
        ELSE IF g_a.exc # "none" THEN g_a
        ELSE IF ~t.ok THEN Raise("struct.error")
        ELSE Ok([self EXCEPT !.nonce = u.v[1], !.server_nonce = u.v[2],
                             !.g = u.v[3], !.dh_prime = dh_prime.obj,
                             !.g_a = g_a.obj, !.server_time = Tup(t.v)])

TLServerDHInnerData_serialize(self) ==
    LET dh_prime_b == MTByteArray_serialize(self.dh_prime)
        g_a_b == MTByteArray_serialize(self.g_a)
        p == pack(<<F("I", 1), F("s", Len(self.nonce.bytes)),
                    F("s", Len(self.server_nonce.bytes)), F("I", 1),
                    F("s", Len(dh_prime_b)), F("s", Len(g_a_b)), F("i", 1)>>,
                  <<MAGIC("TLServerDHInnerData"), self.nonce, self.server_nonce,
                    self.g, Bytes(dh_prime_b), Bytes(g_a_b), self.server_time>>,
                  qalign)
    IN  IF p.ok THEN Sent(p.b) ELSE SRaise("struct.error")

(* TLReqPQ, TLReqDHParams, TLSetClientDHParams *)

TLReqPQ_new == [cls |-> "TLReqPQ", nonce |-> Bytes(<<>>)]

TLReqPQ_deserialize(self, buf, off) ==
    LET m == CheckMagic("TLReqPQ", buf, off)
        u == unpack_from(<<F("s", 16)>>, buf, off + 4, qalign)
    IN  IF m # "none" THEN Raise(m)
        ELSE IF ~u.ok THEN Raise("struct.error")
        ELSE Ok([self EXCEPT !.nonce = u.v[1]])

TLReqPQ_serialize(self) ==
    LET p == pack(<<F("I", 1), F("s", Len(self.nonce.bytes))>>,
                  <<MAGIC("TLReqPQ"), self.nonce>>, qalign)
    IN  IF p.ok THEN Sent(p.b) ELSE SRaise("struct.error")

TLReqDHParams_new ==
    [cls |-> "TLReqDHParams", nonce |-> Bytes(<<>>), server_nonce |-> Bytes(<<>>),
     p |-> MTByteArray_new, q |-> MTByteArray_new,
     public_key_fingerprint |-> N(0), encrypted_data |-> MTByteArray_new]

TLReqDHParams_deserialize(self, buf, off) ==
    LET m == CheckMagic("TLReqDHParams", buf, off)
        u == unpack_from(<<F("s", 16), F("s", 16)>>, buf, off + 4, qalign)
        off1 == off + 4 + 32
        p == MTByteArray_deserialize(self.p, buf, off1)
        off2 == off1 + MTByteArray_serialized_size(p.obj)
        q == MTByteArray_deserialize(self.q, buf, off2)
        off3 == off2 + MTByteArray_serialized_size(q.obj)
        f == unpack_from(<<F("q", 1)>>, buf, off3, qalign)
        e == MTByteArray_deserialize(self.encrypted_data, buf, off3 + 8)
    IN  IF m # "none" THEN Raise(m)
        ELSE IF ~u.ok THEN Raise("struct.error")
        ELSE IF p.exc # "none" THEN p
        ELSE IF q.exc # "none" THEN q
        ELSE IF ~f.ok THEN Raise("struct.error")
        ELSE IF e.exc # "none" THEN e
        ELSE Ok([self EXCEPT !.nonce = u.v[1], !.server_nonce = u.v[2],
                             !.p = p.obj, !.q = q.obj,
                             !.public_key_fingerprint = f.v[1],
                             !.encrypted_data = e.obj])

TLReqDHParams_serialize(self) ==
    LET p_b == MTByteArray_serialize(self.p)
        q_b == MTByteArray_serialize(self.q)
        encrypted_data_b == MTByteArray_serialize(self.encrypted_data)
        p == pack(<<F("I", 1), F("s", 16), F("s", 16), F("s", Len(p_b)),
                    F("s", Len(q_b)), F("q", 1), F("s", Len(encrypted_data_b))>>,
                  <<MAGIC("TLReqDHParams"), self.nonce, self.server_nonce,
                    Bytes(p_b), Bytes(q_b), self.public_key_fingerprint,
                    Bytes(encrypted_data_b)>>, qalign)
    IN  IF p.ok THEN Sent(p.b) ELSE SRaise("struct.error")

TLSetClientDHParams_new ==
    [cls |-> "TLSetClientDHParams", nonce |-> Bytes(<<>>),
     server_nonce |-> Bytes(<<>>), encrypted_data |-> MTByteArray_new]

TLSetClientDHParams_deserialize(self, buf, off) ==
    LET m == CheckMagic("TLSetClientDHParams", buf, off)
        u == unpack_from(<<F("s", 16), F("s", 16)>>, buf, off + 4, qalign)
        e == MTByteArray_deserialize(self.encrypted_data, buf, off + 36)
    IN  IF m # "none" THEN Raise(m)
        ELSE IF ~u.ok THEN Raise("struct.error")
        ELSE IF e.exc # "none" THEN e
        ELSE Ok([self EXCEPT !.nonce = u.v[1], !.server_nonce = u.v[2],
                             !.encrypted_data = e.obj])

TLSetClientDHParams_serialize(self) ==
    LET encrypted_data_b == MTByteArray_serialize(self.encrypted_data)
        p == pack(<<F("I", 1), F("s", 16), F("s", 16),
                    F("s", Len(encrypted_data_b))>>,
                  <<MAGIC("TLSetClientDHParams"), self.nonce, self.server_nonce,
                    Bytes(encrypted_data_b)>>, qalign)
    IN  IF p.ok THEN Sent(p.b) ELSE SRaise("struct.error")

(* TLRpcDropAnswer, TLGetFutureSalts, TLPing, TLPingDelayDisconnect,
   TLDestroySession *)

TLRpcDropAnswer_new == [cls |-> "TLRpcDropAnswer", req_msg_id |-> N(0)]

TLRpcDropAnswer_deserialize(self, buf, off) ==
    LET m == CheckMagic("TLRpcDropAnswer", buf, off)
        u == unpack_from(<<F("q", 1)>>, buf, off + 4, qalign)
    IN  IF m # "none" THEN Raise(m)
        ELSE IF ~u.ok THEN Raise("struct.error")
        ELSE Ok([self EXCEPT !.req_msg_id = u.v[1]])

TLRpcDropAnswer_serialize(self) ==
    LET p == pack(<<F("I", 1), F("q", 1)>>,
                  <<MAGIC("TLRpcDropAnswer"), self.req_msg_id>>, qalign)
    IN  IF p.ok THEN Sent(p.b) ELSE SRaise("struct.error")

TLGetFutureSalts_new == [cls |-> "TLGetFutureSalts", num |-> N(0)]

TLGetFutureSalts_deserialize(self, buf, off) ==
    LET m == CheckMagic("TLGetFutureSalts", buf, off)
        u == unpack_from(<<F("i", 1)>>, buf, off + 4, qalign)
    IN  IF m # "none" THEN Raise(m)
        ELSE IF ~u.ok THEN Raise("struct.error")
        ELSE Ok([self EXCEPT !.num = u.v[1]])

TLGetFutureSalts_serialize(self) ==
    LET p == pack(<<F("I", 1), F("i", 1)>>,
                  <<MAGIC("TLGetFutureSalts"), self.num>>, qalign)
    IN  IF p.ok THEN Sent(p.b) ELSE SRaise("struct.error")

TLPing_new == [cls |-> "TLPing", ping_id |-> N(0)]

\* ping_id is assigned the tuple unpack_from returns.
TLPing_deserialize(self, buf, off) ==
    LET m == CheckMagic("TLPing", buf, off)
        u == unpack_from(<<F("q", 1)>>, buf, off + 4, qalign)
    IN  IF m # "none" THEN Raise(m)
        ELSE IF ~u.ok THEN Raise("struct.error")
        ELSE Ok([self EXCEPT !.ping_id = Tup(u.v)])

TLPing_serialize(self) ==
    LET p == pack(<<F("I", 1), F("q", 1)>>,
                  <<MAGIC("TLPing"), self.ping_id>>, qalign)
    IN  IF p.ok THEN Sent(p.b) ELSE SRaise("struct.error")

TLPingDelayDisconnect_new ==
    [cls |-> "TLPingDelayDisconnect", ping_id |-> N(0), disconnect_delay |-> N(0)]

TLPingDelayDisconnect_deserialize(self, buf, off) ==
    LET m == CheckMagic("TLPingDelayDisconnect", buf, off)
        u == unpack_from(<<F("q", 1), F("i", 1)>>, buf, off + 4, qalign)
    IN  IF m # "none" THEN Raise(m)
        ELSE IF ~u.ok THEN Raise("struct.error")
        ELSE Ok([self EXCEPT !.ping_id = u.v[1], !.disconnect_delay = u.v[2]])

TLPingDelayDisconnect_serialize(self) ==
    LET p == pack(<<F("I", 1), F("q", 1), F("i", 1)>>,
                  <<MAGIC("TLPingDelayDisconnect"), self.ping_id,
                    self.disconnect_delay>>, qalign)
    IN  IF p.ok THEN Sent(p.b) ELSE SRaise("struct.error")

TLDestroySession_new == [cls |-> "TLDestroySession", session_id |-> N(0)]

TLDestroySession_deserialize(self, buf, off) ==
    LET m == CheckMagic("TLDestroySession", buf, off)
        u == unpack_from(<<F("q", 1)>>, buf, off + 4, qalign)
    IN  IF m # "none" THEN Raise(m)
        ELSE IF ~u.ok THEN Raise("struct.error")
        ELSE Ok([self EXCEPT !.session_id = u.v[1]])

TLDestroySession_serialize(self) ==
    LET p == pack(<<F("I", 1), F("q", 1)>>,
                  <<MAGIC("TLDestroySession"), self.session_id>>, qalign)
    IN  IF p.ok THEN Sent(p.b) ELSE SRaise("struct.error")

(* TLGzipPacked, TLError *)

TLGzipPacked_new == [cls |-> "TLGzipPacked", packed_data |-> MTByteArray_new]

TLGzipPacked_deserialize(self, buf, off) ==
    LET m == CheckMagic("TLGzipPacked", buf, off)
        d == MTByteArray_deserialize(self.packed_data, buf, off + 4)
    IN  IF m # "none" THEN Raise(m)
        ELSE IF d.exc # "none" THEN d
        ELSE Ok([self EXCEPT !.packed_data = d.obj])

TLGzipPacked_serialize(self) ==
    LET packed_data_b == MTByteArray_serialize(self.packed_data)
        p == pack(<<F("I", 1), F("s", Len(packed_data_b))>>,
                  <<MAGIC("TLGzipPacked"), Bytes(packed_data_b)>>, qalign)
    IN  IF p.ok THEN Sent(p.b) ELSE SRaise("struct.error")

TLError_new == [cls |-> "TLError", code |-> N(0), text |-> MTByteArray_new]

TLError_deserialize(self, buf, off) ==
    LET m == CheckMagic("TLError", buf, off)
        u == unpack_from(<<F("i", 1)>>, buf, off + 4, qalign)
        t == MTByteArray_deserialize(self.text, buf, off + 8)
    IN  IF m # "none" THEN Raise(m)
        ELSE IF ~u.ok THEN Raise("struct.error")
        ELSE IF t.exc # "none" THEN t
        ELSE Ok([self EXCEPT !.code = u.v[1], !.text = t.obj])

TLError_serialize(self) ==
    LET text_b == MTByteArray_serialize(self.text)
        p == pack(<<F("I", 1), F("i", 1), F("s", Len(text_b))>>,
                  <<MAGIC("TLError"), self.code, Bytes(text_b)>>, qalign)
    IN  IF p.ok THEN Sent(p.b) ELSE SRaise("struct.error")

(* The wrappers: TLInvokeAfterMsg, TLInvokeWithLayer, TLInitConnection.    *)
(* They decode their query through the registry and encode it through the  *)
(* query's own serialize method.                                           *)

RECURSIVE deserialize(_, _)
RECURSIVE Serialize(_)

TLInvokeAfterMsg_new == [cls |-> "TLInvokeAfterMsg", msg_id |-> N(0), query |-> None]

TLInvokeAfterMsg_deserialize(self, buf, off) ==
    LET m == CheckMagic("TLInvokeAfterMsg", buf, off)
        u == unpack_from(<<F("q", 1)>>, buf, off + 4, qalign)
        query == deserialize(buf, off + 8)
    IN  IF m # "none" THEN Raise(m)
        ELSE IF ~u.ok THEN Raise("struct.error")
        ELSE IF query.exc # "none" THEN query
        ELSE Ok([self EXCEPT !.msg_id = u.v[1], !.query = query.obj])

\* The format has three items and pack is given two values.
TLInvokeAfterMsg_serialize(self) ==
    LET query_b == Serialize(self.query)
        p == pack(<<F("I", 1), F("q", 1), F("s", Len(query_b.b))>>,
                  <<MAGIC("TLInvokeAfterMsg"), self.msg_id>>, qalign)
    IN  IF query_b.exc # "none" THEN query_b
        ELSE IF p.ok THEN Sent(p.b) ELSE SRaise("struct.error")

TLInvokeWithLayer_new == [cls |-> "TLInvokeWithLayer", layer |-> N(0), query |-> None]

\* The query is decoded by self.deserialize, which returns None.
RECURSIVE TLInvokeWithLayer_deserialize(_, _, _)
TLInvokeWithLayer_deserialize(self, buf, off) ==
    LET m == CheckMagic("TLInvokeWithLayer", buf, off)
        u == unpack_from(<<F("i", 1)>>, buf, off + 4, qalign)
        query == TLInvokeWithLayer_deserialize([self EXCEPT !.layer = u.v[1]],
                                               buf, off + 8)
    IN  IF m # "none" THEN Raise(m)
        ELSE IF ~u.ok THEN Raise("struct.error")
        ELSE IF query.exc # "none" THEN query
        ELSE Ok([query.obj EXCEPT !.query = None])

TLInvokeWithLayer_serialize(self) ==
    LET query_b == Serialize(self.query)
        p == pack(<<F("I", 1), F("i", 1), F("s", Len(query_b.b))>>,
                  <<MAGIC("TLInvokeWithLayer"), self.layer, Bytes(query_b.b)>>,
                  qalign)
    IN  IF query_b.exc # "none" THEN query_b
        ELSE IF p.ok THEN Sent(p.b) ELSE SRaise("struct.error")

TLInitConnection_new ==
    [cls |-> "TLInitConnection", api_id |-> N(0), device_model |-> MTByteArray_new,
     system_version |-> MTByteArray_new, app_version |-> MTByteArray_new,
     lang_code |-> MTByteArray_new, query |-> None]

TLInitConnection_deserialize(self, buf, off) ==
    LET m == CheckMagic("TLInitConnection", buf, off)
        u == unpack_from(<<F("i", 1)>>, buf, off + 4, qalign)
        off1 == off + 8
        device_model == MTByteArray_deserialize(self.device_model, buf, off1)
        off2 == off1 + MTByteArray_serialized_size(device_model.obj)
        system_version == MTByteArray_deserialize(self.system_version, buf, off2)
        off3 == off2 + MTByteArray_serialized_size(system_version.obj)
        app_version == MTByteArray_deserialize(self.app_version, buf, off3)
        off4 == off3 + MTByteArray_serialized_size(app_version.obj)
        lang_code == MTByteArray_deserialize(self.lang_code, buf, off4)
        off5 == off4 + MTByteArray_serialized_size(lang_code.obj)
        query == deserialize(buf, off5)
    IN  IF m # "none" THEN Raise(m)
        ELSE IF ~u.ok THEN Raise("struct.error")
        ELSE IF device_model.exc # "none" THEN device_model
        ELSE IF system_version.exc # "none" THEN system_version
        ELSE IF app_version.exc # "none" THEN app_version
        ELSE IF lang_code.exc # "none" THEN lang_code
        ELSE IF query.exc # "none" THEN query
        ELSE Ok([self EXCEPT !.api_id = u.v[1], !.device_model = device_model.obj,
                             !.system_version = system_version.obj,
                             !.app_version = app_version.obj,
                             !.lang_code = lang_code.obj, !.query = query.obj])

\* The format has seven items and pack is given six values (no MAGIC).
TLInitConnection_serialize(self) ==
    LET device_model_b == MTByteArray_serialize(self.device_model)
        system_version_b == MTByteArray_serialize(self.system_version)
        app_version_b == MTByteArray_serialize(self.app_version)
        lang_code_b == MTByteArray_serialize(self.lang_code)
        query_b == Serialize(self.query)
        p == pack(<<F("I", 1), F("i", 1), F("s", Len(device_model_b)),
                    F("s", Len(system_version_b)), F("s", Len(app_version_b)),
                    F("s", Len(lang_code_b)), F("s", Len(query_b.b))>>,
                  <<self.api_id, Bytes(device_model_b), Bytes(system_version_b),
                    Bytes(app_version_b), Bytes(lang_code_b), Bytes(query_b.b)>>,
                  qalign)
    IN  IF query_b.exc # "none" THEN query_b
        ELSE IF p.ok THEN Sent(p.b) ELSE SRaise("struct.error")

----------------------------------------------------------------------------
(* Calls through a class object or an instance *)

\* cls(buffer, offset): __init__ sets the defaults and calls deserialize.
Construct(cls, buf, off) ==
    CASE cls = "TLVector" -> TLVector_deserialize(TLVector_new, buf, off)
      [] cls = "TLMsgsAck" -> TLMsgsAck_deserialize(TLMsgsAck_new, buf, off)
      [] cls = "TLMsgContainer" ->
            TLMsgContainer_deserialize(TLMsgContainer_new, buf, off)
      [] cls = "TLMessage" -> TLMessage_deserialize(TLMessage_new, buf, off)
      [] cls = "TLMsgResendReq" ->
            TLMsgResendReq_deserialize(TLMsgResendReq_new, buf, off)
      [] cls = "TLRpcError" -> TLRpcError_deserialize(TLRpcError_new, buf, off)
      [] cls = "TLRpcReqError" ->
            TLRpcReqError_deserialize(TLRpcReqError_new, buf, off)
      [] cls = "TLClientDHInnerData" ->
            TLClientDHInnerData_deserialize(TLClientDHInnerData_new, buf, off)
      [] cls = "TLServerDHInnerData" ->
            TLServerDHInnerData_deserialize(TLServerDHInnerData_new, buf, off)
      [] cls = "TLReqPQ" -> TLReqPQ_deserialize(TLReqPQ_new, buf, off)
      [] cls = "TLReqDHParams" ->
            TLReqDHParams_deserialize(TLReqDHParams_new, buf, off)
      [] cls = "TLSetClientDHParams" ->
            TLSetClientDHParams_deserialize(TLSetClientDHParams_new, buf, off)
      [] cls = "TLRpcDropAnswer" ->
            TLRpcDropAnswer_deserialize(TLRpcDropAnswer_new, buf, off)
      [] cls = "TLGetFutureSalts" ->
            TLGetFutureSalts_deserialize(TLGetFutureSalts_new, buf, off)
      [] cls = "TLPing" -> TLPing_deserialize(TLPing_new, buf, off)
      [] cls = "TLPingDelayDisconnect" ->
            TLPingDelayDisconnect_deserialize(TLPingDelayDisconnect_new, buf, off)
      [] cls = "TLDestroySession" ->
            TLDestroySession_deserialize(TLDestroySession_new, buf, off)
      [] cls = "TLGzipPacked" -> TLGzipPacked_deserialize(TLGzipPacked_new, buf, off)
      [] cls = "TLError" -> TLError_deserialize(TLError_new, buf, off)
      [] cls = "TLInvokeAfterMsg" ->
            TLInvokeAfterMsg_deserialize(TLInvokeAfterMsg_new, buf, off)
      [] cls = "TLInvokeWithLayer" ->
            TLInvokeWithLayer_deserialize(TLInvokeWithLayer_new, buf, off)
      [] cls = "TLInitConnection" ->
            TLInitConnection_deserialize(TLInitConnection_new, buf, off)

\* obj.serialize(); None has no such method.
Serialize(obj) ==
    IF obj = None THEN SRaise("AttributeError")
    ELSE CASE obj.cls = "TLVector" -> TLVector_serialize(obj)
           [] obj.cls = "TLMsgsAck" -> TLMsgsAck_serialize(obj)
           [] obj.cls = "TLMsgContainer" -> TLMsgContainer_serialize(obj)
           [] obj.cls = "TLMessage" -> TLMessage_serialize(obj)
           [] obj.cls = "TLMsgResendReq" -> TLMsgResendReq_serialize(obj)
           [] obj.cls = "TLRpcError" -> TLRpcError_serialize(obj)
           [] obj.cls = "TLRpcReqError" -> TLRpcReqError_serialize(obj)
           [] obj.cls = "TLClientDHInnerData" -> TLClientDHInnerData_serialize(obj)
           [] obj.cls = "TLServerDHInnerData" -> TLServerDHInnerData_serialize(obj)
           [] obj.cls = "TLReqPQ" -> TLReqPQ_serialize(obj)
           [] obj.cls = "TLReqDHParams" -> TLReqDHParams_serialize(obj)
           [] obj.cls = "TLSetClientDHParams" -> TLSetClientDHParams_serialize(obj)
           [] obj.cls = "TLRpcDropAnswer" -> TLRpcDropAnswer_serialize(obj)
           [] obj.cls = "TLGetFutureSalts" -> TLGetFutureSalts_serialize(obj)
           [] obj.cls = "TLPing" -> TLPing_serialize(obj)
           [] obj.cls = "TLPingDelayDisconnect" ->
                 TLPingDelayDisconnect_serialize(obj)
           [] obj.cls = "TLDestroySession" -> TLDestroySession_serialize(obj)
           [] obj.cls = "TLGzipPacked" -> TLGzipPacked_serialize(obj)
           [] obj.cls = "TLError" -> TLError_serialize(obj)
           [] obj.cls = "TLInvokeAfterMsg" -> TLInvokeAfterMsg_serialize(obj)
           [] obj.cls = "TLInvokeWithLayer" -> TLInvokeWithLayer_serialize(obj)
           [] obj.cls = "TLInitConnection" -> TLInitConnection_serialize(obj)

----------------------------------------------------------------------------
(* The registry *)

\* A class object: its name, its MAGIC attribute, and which of the class
\* objects of that name it is (0: the module's own).
ClassObj(name) == [name |-> name, MAGIC |-> MAGIC(name), id |-> 0]

\* __add_object(obj): the registry it leaves, and how the call ends.
\* A registration that overwrites the mapping of a magic already in use; C9
\* tells the code from it.
__add_object_overwrite(obj) ==
    [exc |-> "none", objects |-> (obj.MAGIC :> obj) @@ __objects]

__add_object(obj) ==
    IF obj.MAGIC \in DOMAIN __objects
    THEN [exc |-> "AssertionError", objects |-> __objects]
    ELSE [exc |-> "none", objects |-> __objects @@ (obj.MAGIC :> obj)]

\* deserialize(buffer, offset): the unknown magic is reported as
\* NotImplementedError(hex(magic)); hex is one-to-one, the model keeps magic.
\* A dispatcher that hands the constructor the offset 0 instead of its own
\* offset; C2 tells the code from it.
deserialize_at_zero(buf, off) ==
    LET u == unpack_from(<<F("I", 1)>>, buf, off, qalign)
        magic == u.v[1]
    IN  IF ~u.ok THEN Raise("struct.error")
        ELSE IF magic \notin DOMAIN __objects
        THEN RaiseArg("NotImplementedError", magic)
        ELSE Construct(__objects[magic].name, buf, 0)

deserialize(buf, off) ==
    LET u == unpack_from(<<F("I", 1)>>, buf, off, qalign)
        magic == u.v[1]
    IN  IF ~u.ok THEN Raise("struct.error")
        ELSE IF magic \notin DOMAIN __objects
        THEN RaiseArg("NotImplementedError", magic)
        ELSE Construct(__objects[magic].name, buf, off)

\* Whether magic a sorts before magic b.
KeyLess(a, b) ==
    LET hi(v) == v.int[4] * 65536 + v.int[3] * 256 + v.int[2] IN
    hi(a) < hi(b) \/ (hi(a) = hi(b) /\ a.int[1] < b.int[1])

RECURSIVE SortedKeys(_)
SortedKeys(keys) ==
    IF keys = {} THEN <<>>
    ELSE LET first == CHOOSE k \in keys : \A j \in keys \ {k} : KeyLess(k, j)
         IN  <<first>> \o SortedKeys(keys \ {first})

\* print_table(): the rows it prints, a magic and a class name each.
print_table ==
    LET keys == SortedKeys(DOMAIN __objects) IN
    [i \in 1..Len(keys) |-> <<keys[i], __objects[keys[i]].name>>]

----------------------------------------------------------------------------
(* The values and buffers the calls are made with *)

MaxMsgs == 3      \* envelopes in a container
MaxCount == 2     \* integers in a vector
MaxShift == 2     \* bytes in front of an encoded value
MaxRegClasses == 4  \* classes offered to __add_object in SpecRegistry

SeqsUpTo(S, n) == UNION {[1..k -> S] : k \in 0..n}

Payload(n, seed) == [i \in 1..n |-> (seed + 7 * i) % 256]

Envelope(msg_id, segno, declared, body) ==
    [cls |-> "TLMessage", msg_id |-> msg_id, segno |-> segno,
     bytes |-> N(declared), body |-> Bytes(body)]

\* Envelopes whose declared length is the length of the payload: 0, 5, 37.
Envelopes ==
    {Envelope(N(1), N(0), 0, <<>>),
     Envelope([int |-> <<2, 0, 0, 0, 1, 0, 0, 0>>], N(5), 5, Payload(5, 11)),
     Envelope(Neg(3), N(2), 37, Payload(37, 40))}

\* Envelopes whose declared length is not the length of the payload.
InconsistentEnvelopes ==
    {Envelope(N(1), N(1), 3, Payload(5, 11)),
     Envelope(N(1), N(1), 7, Payload(5, 11)),
     Envelope(N(2), N(0), 2, <<>>)}

\* Containers of up to MaxMsgs envelopes, in every order; a message id
\* occurs once in a container.
Containers ==
    {[cls |-> "TLMsgContainer", messages |-> ms] :
        ms \in {s \in SeqsUpTo(Envelopes, MaxMsgs) :
                    \A i, j \in 1..Len(s) : s[i] = s[j] => i = j}}

VectorInts == {N(0), N(258), Neg(2), [int |-> <<0, 0, 0, 128, 1, 0, 0, 0>>]}

Vectors == {[cls |-> "TLVector", values |-> vs] : vs \in SeqsUpTo(VectorInts, MaxCount)}

ByteArray(data) == [cls |-> "MTByteArray", data |-> data]

Pings == {[cls |-> "TLPing", ping_id |-> N(7)], [cls |-> "TLPing", ping_id |-> Neg(1)]}

\* The wrappers, each around a Ping.
Wrappers ==
    UNION {{[cls |-> "TLInvokeAfterMsg", msg_id |-> N(9), query |-> p],
            [cls |-> "TLInvokeWithLayer", layer |-> N(3), query |-> p],
            [TLInitConnection_new EXCEPT !.api_id = N(4),
                                         !.device_model = ByteArray(Payload(3, 1)),
                                         !.lang_code = ByteArray(Payload(2, 9)),
                                         !.query = p]} : p \in Pings}

\* One populated value of every other class, and the default envelope.
Records ==
    {[cls |-> "TLMsgsAck", msg_ids |-> [cls |-> "TLVector", values |-> <<N(1), Neg(2)>>]],
     [cls |-> "TLMsgResendReq", msg_ids |-> [cls |-> "TLVector", values |-> <<N(5)>>]],
     [cls |-> "TLRpcError", error_code |-> Neg(4),
      error_message |-> ByteArray(Payload(5, 3))],
     [cls |-> "TLRpcReqError", query_id |-> N(6), error_code |-> N(400),
      error_message |-> ByteArray(Payload(3, 5))],
     [TLClientDHInnerData_new EXCEPT !.nonce = Bytes(Payload(16, 1)),
                                     !.server_nonce = Bytes(Payload(16, 2)),
                                     !.retry_id = N(1),
                                     !.g_b = ByteArray(Payload(6, 3))],
     [TLServerDHInnerData_new EXCEPT !.nonce = Bytes(Payload(16, 1)),
                                     !.server_nonce = Bytes(Payload(16, 2)),
                                     !.g = N(3),
                                     !.dh_prime = ByteArray(Payload(7, 4)),
                                     !.g_a = ByteArray(Payload(3, 5)),
                                     !.server_time = N(1000)],
     [cls |-> "TLReqPQ", nonce |-> Bytes(Payload(16, 1))],
     [TLReqDHParams_new EXCEPT !.nonce = Bytes(Payload(16, 1)),
                               !.server_nonce = Bytes(Payload(16, 2)),
                               !.p = ByteArray(Payload(4, 6)),
                               !.q = ByteArray(Payload(4, 7)),
                               !.public_key_fingerprint = Neg(9),
                               !.encrypted_data = ByteArray(Payload(9, 8))],
     [TLSetClientDHParams_new EXCEPT !.nonce = Bytes(Payload(16, 1)),
                                     !.server_nonce = Bytes(Payload(16, 2)),
                                     !.encrypted_data = ByteArray(Payload(5, 8))],
     [cls |-> "TLRpcDropAnswer", req_msg_id |-> N(77)],
     [cls |-> "TLGetFutureSalts", num |-> N(2)],
     [cls |-> "TLPingDelayDisconnect", ping_id |-> N(7), disconnect_delay |-> N(30)],
     [cls |-> "TLDestroySession", session_id |-> Neg(5)],
     [cls |-> "TLGzipPacked", packed_data |-> ByteArray(Payload(6, 2))],
     [cls |-> "TLError", code |-> N(404), text |-> ByteArray(Payload(3, 65))],
     TLMessage_new}

\* The wire images the protocol gives a Ping and the wrappers around it:
\* the fields one after the other, little-endian, without padding.
Wire_TLPing(p) == SubSeq(MAGIC("TLPing").int, 1, 4) \o p.ping_id.int

Wire_TLInvokeAfterMsg(w) ==
    SubSeq(MAGIC("TLInvokeAfterMsg").int, 1, 4) \o w.msg_id.int
        \o Wire_TLPing(w.query)

Wire_TLInvokeWithLayer(w) ==
    SubSeq(MAGIC("TLInvokeWithLayer").int, 1, 4) \o SubSeq(w.layer.int, 1, 4)
        \o Wire_TLPing(w.query)

Wire_TLInitConnection(w) ==
    SubSeq(MAGIC("TLInitConnection").int, 1, 4) \o SubSeq(w.api_id.int, 1, 4)
        \o MTByteArray_serialize(w.device_model)
        \o MTByteArray_serialize(w.system_version)
        \o MTByteArray_serialize(w.app_version)
        \o MTByteArray_serialize(w.lang_code)
        \o Wire_TLPing(w.query)

Wire(w) ==
    CASE w.cls = "TLInvokeAfterMsg" -> Wire_TLInvokeAfterMsg(w)
      [] w.cls = "TLInvokeWithLayer" -> Wire_TLInvokeWithLayer(w)
      [] w.cls = "TLInitConnection" -> Wire_TLInitConnection(w)

WrapperWires == {Wire(w) : w \in Wrappers}

\* Buffers too short to hold a magic number.
ShortBuffers == {<<>>, <<21, 196, 181>>}

Junk(k) == [i \in 1..k |-> 170]

\* The 4 bytes at the decode offset, as the magic number they spell.
HasMagic == Len(buffer) >= offset + 4
MagicAt == [int |-> SubSeq(buffer, offset + 1, offset + 4) \o Zeros(4)]

IsA(o, cls) == o # None /\ o.cls = cls

----------------------------------------------------------------------------
(* The state machine: the module is imported, one __add_object statement   *)
(* at a time; then values are built, encoded, and buffers are decoded.     *)

\* The MTByteArray() of a parameter default is made once, when the def
\* statement runs: the address of TLGzipPacked.__init__'s packed_data and of
\* TLError.__init__'s text.  TLRpcError.__init__ makes its own in its body.
DefaultArgs == <<MTByteArray_new, MTByteArray_new>>

Init ==
    /\ __objects = [k \in {} |-> None]
    /\ loaded = 0
    /\ qalign \in {4, 8}
    /\ regcall = NotYet
    /\ orig = None
    /\ enc = NotYet
    /\ how = "none"
    /\ buffer = <<>>
    /\ offset = 0
    /\ via = "none"
    /\ dec = NotYet
    /\ reenc = NotYet
    /\ table = <<>>
    /\ heap = DefaultArgs
    /\ held = <<>>

Imported == loaded = Len(Registered)

codec == <<orig, enc, how, buffer, offset, via, dec, reenc, table>>

owned == <<heap, held>>

\* No call of the codec has been made since the import or the last Reset.
Idle == Imported /\ orig = None /\ how = "none" /\ table = <<>>

\* A call of __add_object(obj).
AddObject(obj) ==
    /\ __objects' = __add_object(obj).objects
    /\ regcall' = [exc |-> __add_object(obj).exc, obj |-> obj]
    /\ UNCHANGED <<qalign, codec, owned>>

\* The next __add_object statement of the module.
Import ==
    /\ loaded < Len(Registered)
    /\ AddObject(ClassObj(Registered[loaded + 1]))
    /\ loaded' = loaded + 1

registry == <<__objects, loaded, qalign, regcall>>

\* A value is built by assigning its fields.
Make(v) ==
    /\ Idle
    /\ orig' = v
    /\ UNCHANGED <<owned, registry, enc, how, buffer, offset, via, dec, reenc, table>>

MakeContainer == \E v \in Containers : Make(v)
MakeVector == \E v \in Vectors : Make(v)
MakeEnvelope == \E v \in Envelopes \cup InconsistentEnvelopes : Make(v)
MakeWrapper == \E v \in Pings \cup Wrappers : Make(v)
MakeRecord == \E v \in Records : Make(v)

\* orig.serialize()
Encode ==
    /\ orig # None
    /\ enc = NotYet
    /\ enc' = Serialize(orig)
    /\ UNCHANGED <<owned, registry, orig, how, buffer, offset, via, dec, reenc, table>>

\* A buffer and an offset are chosen for the next decode call.
Present(h, b, o) ==
    /\ how' = h
    /\ buffer' = b
    /\ offset' = o
    /\ UNCHANGED <<owned, registry, orig, enc, via, dec, reenc, table>>

\* orig was encoded, and no buffer has been chosen yet.
Encoded == enc # NotYet /\ enc.exc = "none" /\ how = "none"

PresentAsIs == Encoded /\ Present("asis", enc.b, 0)

PresentShifted ==
    \E k \in 1..MaxShift : Encoded /\ Present("shifted", Junk(k) \o enc.b, k)

PresentTruncated ==
    Encoded /\ Len(enc.b) > 0
        /\ Present("truncated", SubSeq(enc.b, 1, Len(enc.b) - 1), 0)

PresentBadMagic ==
    Encoded /\ Len(enc.b) > 0
        /\ Present("badmagic", [enc.b EXCEPT ![1] = (@ + 1) % 256], 0)

PresentRaw == \E b \in WrapperWires \cup ShortBuffers : Idle /\ Present("raw", b, 0)

\* deserialize(buffer, offset), or cls(buffer, offset) for a class.
Decode ==
    \E v \in {"deserialize"} \cup Classes :
        /\ how # "none"
        /\ dec = NotYet
        /\ via' = v
        /\ dec' = IF v = "deserialize" THEN deserialize(buffer, offset)
                  ELSE Construct(v, buffer, offset)
        /\ UNCHANGED <<owned, registry, orig, enc, how, buffer, offset, reenc, table>>

\* The decoded value's serialize().
ReEncode ==
    /\ dec # NotYet
    /\ dec.exc = "none"
    /\ reenc = NotYet
    /\ reenc' = Serialize(dec.obj)
    /\ UNCHANGED <<owned, registry, orig, enc, how, buffer, offset, via, dec, table>>

PrintTable ==
    /\ Idle
    /\ table' = print_table
    /\ UNCHANGED <<owned, registry, orig, enc, how, buffer, offset, via, dec, reenc>>

\* The values and results of the calls made so far are dropped.
Reset ==
    /\ Imported
    /\ ~Idle
    /\ orig' = None
    /\ enc' = NotYet
    /\ how' = "none"
    /\ buffer' = <<>>
    /\ offset' = 0
    /\ via' = "none"
    /\ dec' = NotYet
    /\ reenc' = NotYet
    /\ table' = <<>>
    /\ UNCHANGED <<owned, registry>>

Next ==
    \/ Import
    \/ MakeContainer
    \/ MakeVector
    \/ MakeEnvelope
    \/ MakeWrapper
    \/ MakeRecord
    \/ Encode
    \/ PresentAsIs
    \/ PresentShifted
    \/ PresentTruncated
    \/ PresentBadMagic
    \/ PresentRaw
    \/ Decode
    \/ ReEncode
    \/ PrintTable
    \/ Reset

Spec == Init /\ [][Next]_vars

\* Registration attempts in any order: the module's first classes, and for
\* each a second class object that declares the same MAGIC.
RegCandidates ==
    UNION {{ClassObj(Registered[i]), [ClassObj(Registered[i]) EXCEPT !.id = 1]} :
           i \in 1..MaxRegClasses}

Register == \E obj \in RegCandidates : AddObject(obj) /\ UNCHANGED loaded

SpecRegistry == Init /\ [][Register]_vars

----------------------------------------------------------------------------
(* Objects: instances that outlive the call that made them.  An instance   *)
(* refers to its MTByteArray fields by their address in `heap`; a decode   *)
(* of the field (self.text.deserialize(...)) changes the MTByteArray at    *)
(* that address.                                                           *)

MaxHeld == 2      \* instances kept at a time
MaxKept == 3      \* envelopes in a container beyond which it is not decoded into again

Ref(a) == [ref |-> a]

\* The classes followed here, and their MTByteArray fields.
OwnedClasses == {"TLGzipPacked", "TLError", "TLRpcError", "TLMsgContainer"}

ByteFields(cls) ==
    CASE cls = "TLGzipPacked" -> {"packed_data"}
      [] cls = "TLError" -> {"text"}
      [] cls = "TLRpcError" -> {"error_message"}
      [] OTHER -> {}

HasDefaultArg(cls) == cls \in {"TLGzipPacked", "TLError"}

DefaultArg(cls) == IF cls = "TLGzipPacked" THEN 1 ELSE 2

NewValue(cls) ==
    CASE cls = "TLGzipPacked" -> TLGzipPacked_new
      [] cls = "TLError" -> TLError_new
      [] cls = "TLRpcError" -> TLRpcError_new
      [] cls = "TLMsgContainer" -> TLMsgContainer_new

\* An address no object lives at.
FreeAddress(h) == CHOOSE a \in 1..(Cardinality(DOMAIN h) + 1) : a \notin DOMAIN h

\* cls.__init__ up to the deserialize call: [obj, heap].
NewObject(cls, h) ==
    LET a == IF HasDefaultArg(cls) THEN DefaultArg(cls) ELSE FreeAddress(h)
        v == NewValue(cls)
    IN  [obj |-> [f \in DOMAIN v |-> IF f \in ByteFields(cls) THEN Ref(a) ELSE v[f]],
         heap |-> IF ByteFields(cls) = {} \/ HasDefaultArg(cls) THEN h
                  ELSE h @@ (a :> MTByteArray_new)]

\* The instance as its attributes show it.
ViewIn(o, h) ==
    [f \in DOMAIN o |-> IF f \in ByteFields(o.cls) THEN h[o[f].ref] ELSE o[f]]

View(o) == ViewIn(o, heap)

Refs(o) == {o[f].ref : f \in ByteFields(o.cls)}

DeserializeOf(self, buf, off) ==
    CASE self.cls = "TLGzipPacked" -> TLGzipPacked_deserialize(self, buf, off)
      [] self.cls = "TLError" -> TLError_deserialize(self, buf, off)
      [] self.cls = "TLRpcError" -> TLRpcError_deserialize(self, buf, off)
      [] self.cls = "TLMsgContainer" -> TLMsgContainer_deserialize(self, buf, off)

\* What the loop of TLMsgContainer.deserialize has appended to self.messages
\* when it ends, by running out of messages or by an exception.
RECURSIVE TLMsgContainer_kept(_, _, _, _)
TLMsgContainer_kept(self, buf, off, left) ==
    IF left = 0 THEN self
    ELSE LET message == TLMessage(buf, off)
             size == TLMessage_serialized_size(message.obj)
         IN  IF message.exc # "none" THEN self
             ELSE IF ~size.ok THEN [self EXCEPT !.messages = Append(@, message.obj)]
             ELSE TLMsgContainer_kept(
                      [self EXCEPT !.messages = Append(@, message.obj)],
                      buf, off + size.v, left - 1)

\* The instance after a deserialize call that raised.  The buffers used here
\* are encodings, on which only the container's decode can raise.
AfterRaise(o, buf, off) ==
    LET m == CheckMagic("TLMsgContainer", buf, off)
        c == unpack_from(<<F("I", 1)>>, buf, off + 4, qalign)
    IN  IF o.cls # "TLMsgContainer" \/ m # "none" \/ ~c.ok THEN o
        ELSE TLMsgContainer_kept(o, buf, off + 8, Count(c.v[1]))

\* The instance and the heap once o.deserialize(buf, off) has ended as r.
StoreResult(o, h, buf, off, r) ==
    IF r.exc # "none" THEN [exc |-> r.exc, obj |-> AfterRaise(o, buf, off), heap |-> h]
    ELSE [exc |-> "none",
          obj |-> [f \in DOMAIN o |->
                     IF f \in ByteFields(o.cls) THEN o[f] ELSE r.obj[f]],
          heap |-> [a \in DOMAIN h |->
                     IF \E f \in ByteFields(o.cls) : o[f].ref = a
                     THEN r.obj[CHOOSE f \in ByteFields(o.cls) : o[f].ref = a]
                     ELSE h[a]]]

\* o.deserialize(buf, off) on an instance: [exc, obj, heap].
DeserializeInPlace(o, h, buf, off) ==
    StoreResult(o, h, buf, off, DeserializeOf(ViewIn(o, h), buf, off))

\* The envelopes, payload of 5 bytes first.
EnvelopeOrder ==
    <<Envelope([int |-> <<2, 0, 0, 0, 1, 0, 0, 0>>], N(5), 5, Payload(5, 11)),
      Envelope(N(1), N(0), 0, <<>>),
      Envelope(Neg(3), N(2), 37, Payload(37, 40))>>

\* Values whose encodings are decoded into instances: two of each class
\* with a byte field, and the containers of the first envelopes.
OwnedValues ==
    {[cls |-> "TLGzipPacked", packed_data |-> ByteArray(Payload(6, 2))],
     [cls |-> "TLGzipPacked", packed_data |-> ByteArray(Payload(2, 30))],
     [cls |-> "TLError", code |-> N(404), text |-> ByteArray(Payload(3, 65))],
     [cls |-> "TLError", code |-> Neg(1), text |-> ByteArray(<<>>)],
     [cls |-> "TLRpcError", error_code |-> Neg(4),
      error_message |-> ByteArray(Payload(5, 3))],
     [cls |-> "TLRpcError", error_code |-> N(7),
      error_message |-> ByteArray(Payload(1, 3))]}
    \cup {[cls |-> "TLMsgContainer", messages |-> SubSeq(EnvelopeOrder, 1, k)] :
              k \in {n \in 0..MaxCount : n <= Len(EnvelopeOrder)}}

OwnedBuffers == {Serialize(v).b : v \in OwnedValues}

ClassAt(buf) == __objects[[int |-> SubSeq(buf, 1, 4) \o Zeros(4)]].name

DeclaredCount(buf) == Num(unpack_from(<<F("I", 1)>>, buf, 4, qalign).v[1])

\* An entry of held: the instance, the buffer of its last decode call that
\* returned, what the instance showed when that call returned, and whether
\* a decode call on it has raised.
Held(o, buf, h, failed) ==
    [obj |-> o, buffer |-> buf, seen |-> ViewIn(o, h), failed |-> failed]

\* x = deserialize(b, 0), and x is kept.
DecodeObject ==
    /\ Imported
    /\ Len(held) < MaxHeld
    /\ \E b \in OwnedBuffers :
        \E n \in {NewObject(ClassAt(b), heap)} :
        \E r \in {DeserializeInPlace(n.obj, n.heap, b, 0)} :
            /\ IF r.exc = "none"
               THEN /\ held' = Append(held, Held(r.obj, b, r.heap, FALSE))
                    /\ heap' = r.heap
               ELSE UNCHANGED owned
            /\ UNCHANGED <<registry, codec>>

\* held[i].obj.deserialize(b, 0): a decode call on an instance made earlier.
Redecode ==
    \E i \in DOMAIN held, b \in OwnedBuffers :
        \E o \in {held[i].obj} :
        \E r \in {DeserializeInPlace(o, heap, b, 0)} :
            /\ ClassAt(b) = o.cls
            /\ o.cls = "TLMsgContainer" => Len(o.messages) < MaxKept
            /\ held' = [held EXCEPT ![i] =
                          IF r.exc = "none" THEN Held(r.obj, b, r.heap, @.failed)
                          ELSE [@ EXCEPT !.obj = r.obj, !.failed = TRUE]]
            /\ heap' = r.heap
            /\ UNCHANGED <<registry, codec>>

\* The oldest instance is dropped, and with it the MTByteArray objects that
\* nothing else refers to.
Drop ==
    /\ held # <<>>
    /\ held' = Tail(held)
    /\ heap' = [a \in {x \in DOMAIN heap :
                          \/ x \in DOMAIN DefaultArgs
                          \/ \E i \in 2..Len(held) : x \in Refs(held[i].obj)}
                  |-> heap[a]]
    /\ UNCHANGED <<registry, codec>>

NextObjects == Import \/ DecodeObject \/ Redecode \/ Drop

SpecObjects == Init /\ [][NextObjects]_vars

----------------------------------------------------------------------------
(* The claims *)

\* C1: a TLMsgContainer of envelopes, encoded and then decoded, has the same
\* number of envelopes in the same order, each with its msg_id, segno,
\* declared length and payload, and encoding the decoded container gives
\* the same bytes.
C1_ContainerRoundTrip ==
    (/\ IsA(orig, "TLMsgContainer")
     /\ how = "asis"
     /\ via \in {"TLMsgContainer", "deserialize"}
     /\ dec # NotYet)
    => /\ dec.exc = "none"
       /\ Len(dec.obj.messages) = Len(orig.messages)
       /\ \A i \in 1..Len(orig.messages) :
            /\ dec.obj.messages[i].msg_id = orig.messages[i].msg_id
            /\ dec.obj.messages[i].segno = orig.messages[i].segno
            /\ dec.obj.messages[i].bytes = orig.messages[i].bytes
            /\ dec.obj.messages[i].body = orig.messages[i].body
       /\ (reenc # NotYet => reenc = enc)

\* C2 as claimed: deserialize(buffer, offset) returns a value of the
\* registered type when the magic at the offset is registered, and fails
\* with the unknown-type error naming the magic when it is not.
C2_AlwaysValue ==
    (via = "deserialize" /\ dec # NotYet /\ HasMagic)
    => IF MagicAt \in DOMAIN __objects
       THEN dec.exc = "none" /\ dec.obj.cls = __objects[MagicAt].name
       ELSE dec = RaiseArg("NotImplementedError", MagicAt)

\* C2, amended: deserialize(buffer, offset) reads the magic at the offset and
\* returns what the class registered for it makes of the same buffer and
\* offset: a value of exactly that class, or that decoder's error and no
\* value.  For a magic that is not registered it raises the unknown-type
\* error naming the magic, and for a buffer with fewer than 4 bytes at the
\* offset it raises struct.error; neither returns a value.
C2_Dispatch ==
    (via = "deserialize" /\ dec # NotYet)
    => IF ~HasMagic
       THEN dec = Raise("struct.error")
       ELSE IF MagicAt \in DOMAIN __objects
       THEN /\ dec = Construct(__objects[MagicAt].name, buffer, offset)
            /\ dec.exc = "none" =>
                 /\ dec.obj.cls = __objects[MagicAt].name
                 /\ MAGIC(dec.obj.cls) = MagicAt
       ELSE dec = RaiseArg("NotImplementedError", MagicAt)

C2_Witness ==
    /\ via = "deserialize"
    /\ how = "shifted"
    /\ dec # NotYet
    /\ dec.exc = "none"
    /\ dec.obj = orig

\* C3: a class's decode of a buffer whose 4 bytes at the offset are not the
\* class's magic number raises IncorrectMagicNumberError and returns no
\* value.
C3_WrongMagicFails ==
    (via \in Classes /\ dec # NotYet /\ HasMagic /\ MagicAt # MAGIC(via))
    => dec = Raise("IncorrectMagicNumberError")

C3_Witness ==
    /\ how = "badmagic"
    /\ IsA(orig, via)
    /\ Len(buffer) > 4
    /\ dec = Raise("IncorrectMagicNumberError")

\* C4: decoding a valid encoded buffer without its last byte fails with the
\* truncated-input error and returns no value.
C4_TruncatedFails ==
    (/\ how = "truncated"
     /\ dec # NotYet
     /\ orig \notin InconsistentEnvelopes
     /\ orig.cls # "TLClientDHInnerData"
     /\ via \in {"deserialize", orig.cls})
    => dec.exc \in {"struct.error", "TruncatedInputError"} /\ dec.obj = None

\* C5: encoding an envelope whose payload length is not its declared length
\* fails and produces no buffer.
C5_InconsistentLengthFails ==
    (/\ IsA(orig, "TLMessage")
     /\ enc # NotYet
     /\ IsBytes(orig.body)
     /\ Len(orig.body.bytes) # Num(orig.bytes))
    => enc.exc # "none" /\ enc.b = <<>>

\* C6: a buffer that encodes a wrapper around a Ping (its wire image, or
\* what the wrapper's own serialize returned) decodes, through the registry
\* or the wrapper's class, to a wrapper whose query is a Ping, and encoding
\* the decoded wrapper gives the buffer again.
C6_WrapperRoundTrip ==
    (/\ \/ how = "raw" /\ buffer \in WrapperWires
        \/ how = "asis" /\ orig \in Wrappers /\ enc = Sent(buffer)
     /\ dec # NotYet
     /\ \/ via = "deserialize"
        \/ via \in Classes /\ MAGIC(via) = MagicAt)
    => /\ dec.exc = "none"
       /\ IsA(dec.obj.query, "TLPing")
       /\ (reenc # NotYet => reenc = Sent(buffer))

\* C7: decoding a buffer that starts with TLClientDHInnerData's magic
\* number, by the class or through the registry, raises NotImplementedError
\* and returns no value; the class's decode of any other magic raises
\* IncorrectMagicNumberError.
C7_ClientDHUnsupported ==
    (dec # NotYet /\ HasMagic)
    => /\ (/\ via \in {"TLClientDHInnerData", "deserialize"}
           /\ MagicAt = MAGIC("TLClientDHInnerData"))
          => dec = Raise("NotImplementedError")
       /\ (via = "TLClientDHInnerData" /\ MagicAt # MAGIC("TLClientDHInnerData"))
          => dec = Raise("IncorrectMagicNumberError")

C7_Witness ==
    /\ via = "deserialize"
    /\ HasMagic
    /\ MagicAt = MAGIC("TLClientDHInnerData")
    /\ Len(buffer) > offset + 4
    /\ dec = Raise("NotImplementedError")

\* C8: a TLVector of count 64-bit integers reports the size 8 + 8*count,
\* its encoding has that length, and decoding the encoding at any offset
\* gives the same integers in the same order.
C8_VectorRoundTrip ==
    IsA(orig, "TLVector")
    => /\ TLVector_serialized_size(orig) = 8 + 8 * Len(orig.values)
       /\ enc # NotYet => enc.exc = "none" /\ Len(enc.b) = 8 + 8 * Len(orig.values)
       /\ (/\ dec # NotYet
           /\ how \in {"asis", "shifted"}
           /\ via \in {"TLVector", "deserialize"})
          => /\ dec = Ok(orig)
             /\ dec.obj.values = orig.values
             /\ TLVector_serialized_size(dec.obj) = Len(buffer) - offset

C8_Witness ==
    /\ IsA(orig, "TLVector")
    /\ Len(orig.values) >= 2
    /\ how = "shifted"
    /\ via = "TLVector"
    /\ dec = Ok(orig)

\* C9: a registration attempt with a magic that is already registered fails
\* and leaves the registry as it was; one with an unused magic adds that
\* mapping and changes no other; every magic maps to one class.
C9_RegisterOnce ==
    [][LET obj == regcall'.obj IN
       /\ IF obj.MAGIC \in DOMAIN __objects
          THEN regcall'.exc = "AssertionError" /\ __objects' = __objects
          ELSE /\ regcall'.exc = "none"
               /\ DOMAIN __objects' = DOMAIN __objects \cup {obj.MAGIC}
               /\ __objects'[obj.MAGIC] = obj
               /\ \A k \in DOMAIN __objects : __objects'[k] = __objects[k]
       /\ \A k \in DOMAIN __objects' : __objects'[k].MAGIC = k]_vars

C9_Witness ==
    /\ regcall # NotYet
    /\ regcall.exc = "AssertionError"
    /\ __objects[regcall.obj.MAGIC] # regcall.obj

\* C10: once the module is imported the registry holds every class that has
\* a MAGIC, under its magic, and nothing else, whatever is decoded, encoded
\* or listed afterwards.
C10_AllRegistered ==
    Imported
    => /\ DOMAIN __objects = {MAGIC(c) : c \in Classes}
       /\ \A c \in Classes : __objects[MAGIC(c)] = ClassObj(c)


\* C11: no two instances kept from decode calls refer to the same
\* MTByteArray, and what an instance with a byte field shows (its text,
\* packed_data or error_message) is what it showed when its own last decode
\* call returned, whatever has been decoded into other instances since.
C11_ExclusiveOwnership ==
    /\ \A i, j \in DOMAIN held :
          i # j => Refs(held[i].obj) \cap Refs(held[j].obj) = {}
    /\ \A i \in DOMAIN held :
          ByteFields(held[i].obj.cls) # {} => View(held[i].obj) = held[i].seen


\* The flat control, error and handshake records.
FlatClasses ==
    {"TLPing", "TLPingDelayDisconnect", "TLRpcDropAnswer", "TLDestroySession",
     "TLGetFutureSalts", "TLRpcError", "TLRpcReqError", "TLServerDHInnerData",
     "TLReqDHParams", "TLSetClientDHParams"}

\* C12: decoding the encoding of a flat record, by its class or through the
\* registry, gives a value with the fields of the original, and encoding the
\* decoded value gives the same bytes.
C12_FlatRecordsRoundTrip ==
    (/\ \E c \in FlatClasses : IsA(orig, c)
     /\ how = "asis"
     /\ via \in {orig.cls, "deserialize"}
     /\ dec # NotYet)
    => /\ dec = Ok(orig)
       /\ (reenc # NotYet => reenc = enc)


\* C13: a container instance on which every decode call so far has returned
\* holds the envelopes of the buffer decoded last and no others: as many as
\* that buffer declares, the ones a new container made from it holds.
C13_ContainerHoldsLastBuffer ==
    \A i \in DOMAIN held :
        (held[i].obj.cls = "TLMsgContainer" /\ ~held[i].failed)
        => /\ Len(held[i].obj.messages) = DeclaredCount(held[i].buffer)
           /\ held[i].obj.messages =
                 Construct("TLMsgContainer", held[i].buffer, 0).obj.messages

====
